---- MODULE Spec2Model ----
(***************************************************************************)
(* Model of the load-test Job Manager                                      *)
(* (apps/iot-load-tester/job_manager.py).                                  *)
(*                                                                         *)
(* The Job Manager runs on one asyncio event loop: a coroutine runs        *)
(* without interruption between two awaits that really suspend.  Each      *)
(* action below is one such uninterrupted stretch of a coroutine, or one   *)
(* step of the environment (the child process, the clock).                 *)
(*                                                                         *)
(* Job objects are kept apart from the table that maps identifiers to      *)
(* them: uuid4()[:8] is a random 32-bit value, so create_job can draw an   *)
(* identifier that is already a key of the table, and then the table entry *)
(* is rebound to the new object while the old object lives on in its       *)
(* supervision task.                                                       *)
(*                                                                         *)
(* Four specifications share the actions of the Job Manager:               *)
(*   Spec       the whole life of a job: supervision with a child process, *)
(*              stop, the clock and the sweep;                             *)
(*   CapSpec    enough jobs to reach the concurrency ceiling;              *)
(*   SweepSpec  several jobs, colliding identifiers, the clock, the sweep; *)
(*   LiveSpec   supervision under fair scheduling of the tasks and of the  *)
(*              wait_for timer.                                            *)
(* PayloadSpec is the payload generator of one simulated device            *)
(* (apps/iot-load-tester/locustfile.py).                                   *)
(* UserSpec is one simulated device (IoTDeviceUser of locustfile.py) with  *)
(* its protocol driver (protocols/) and its broker: the connect of         *)
(* on_start, then the ticks of run_test; UserLiveSpec is UserSpec under    *)
(* fair scheduling of the user's greenlet and of the paho network thread.  *)
(* DriverSpec is one protocol driver called directly, in any order of its  *)
(* methods; LaunchSpec is the settings of a run written by _build_env and  *)
(* read back by a device of the child.                                     *)
(***************************************************************************)
EXTENDS Integers, Sequences, FiniteSets, TLC

VARIABLES
    jobs,          \* every Job object ever allocated, in allocation order
    table,         \* JobManager._jobs : identifier -> index into jobs
    task,          \* per Job object: position of its _run_job task
    child,         \* per Job object: state of its child process
    stderr,        \* per Job object: number of characters its child wrote
                   \* to its error stream
    JOBS_RUNNING,  \* the loadtest_jobs_running gauge
    now,           \* datetime.utcnow(), in whole seconds
    ticks,         \* number of clock steps taken (bounds the clock)
    lastOp,        \* the last public call and what it returned (prev: what
                   \* the sweep just before it returned, for a sweep)
    device,        \* one IoTDeviceUser of locustfile.py and its clock:
                   \* what _generate_payload reads and returns
    user,          \* one IoTDeviceUser: its settings, its connected flag,
                   \* the position of its greenlet, what it did in this tick
    client,        \* the protocol driver of that user (self.client)
    broker,        \* the broker the driver talks to
    call,          \* the last call made on the driver directly: the
                   \* method, the driver and the broker it found, how it
                   \* ended
    launch         \* a TestConfig, the settings _build_env made of it and
                   \* what a launched device read back from them

vars == <<jobs, table, task, child, stderr, JOBS_RUNNING, now, ticks,
         lastOp, device, user, client, broker, call, launch>>

(***************************************************************************)
(* Program constants                                                       *)
(***************************************************************************)
MAX_CONCURRENT_JOBS == 5
JOB_TTL_SECONDS == 3600
RuntimeSecondsMin == 10
RuntimeSecondsMax == 3600
WaitGraceSeconds == 60
SEED_MODULUS == 10000   \* hash(self.device_id) % 10000
DEFAULT_INTERVAL == 1000 \* 1.0 / LOADTEST_PUBLISH_RATE, default rate 1.0
SLOW_INTERVAL == 10000  \* 1.0 / 0.1, the lowest publishRatePerDevice
BACKOFF_MS == 1000      \* time.sleep(1.0) after a failed reconnect
CHURN_SLEEP_MIN == 500  \* random.uniform(0.5, 2.0)
CHURN_SLEEP_MAX == 2000
OFFLINE_SLEEP_MIN == 1000 \* random.uniform(1.0, 5.0)
OFFLINE_SLEEP_MAX == 5000
burst_count == 10
DEFAULT_MESSAGE_SIZE == 256 \* LOADTEST_MESSAGE_SIZE default
PAD_FLOOR == 200        \* "x" * max(0, self.message_size - 200)
RECORD_OVERHEAD == 121  \* characters of the JSON record besides the three
                        \* readings and the padding: keys, punctuation, the
                        \* 17-character device id, the 13-digit timestamp
CYCLE_SECONDS == 300    \* the humidity cycle
MsPerSecond == 1000     \* resolution of the device's clock
Unit == 10000           \* resolution of the sensor values
STDERR_LIMIT == 500     \* stderr[:500]
ExitPrefixLen == 13     \* len("Exit code 1: ")
TimeoutErrorLen == 13   \* len("Job timed out")

(***************************************************************************)
(* Bounds of the model                                                     *)
(***************************************************************************)
MaxJobs == 1      \* Job objects allocated in Spec
NumIds == 2       \* identifiers uuid4()[:8] can return in SweepSpec
MaxTicks == 2     \* clock steps in Spec
MaxCapJobs == 6   \* Job objects allocated in CapSpec
MaxSweepJobs == 2 \* Job objects allocated in SweepSpec
MaxLiveJobs == 1  \* Job objects allocated in LiveSpec
MaxDevTicks == 2  \* steps of the device's clock in PayloadSpec

JobIds == 1..NumIds
TickSteps == {JOB_TTL_SECONDS}
ConfigRuntimes == {RuntimeSecondsMin}
\* runtimeSeconds in LiveSpec: the bounds of the field
LiveRuntimes == {RuntimeSecondsMin, RuntimeSecondsMax}

\* Lengths of the error stream of a child that exits with a non-zero code:
\* one that fits stderr[:500] and one that does not.
StderrLens == {STDERR_LIMIT, STDERR_LIMIT + 1}

\* Lengths of the message of an exception: a short one, and one longer than
\* the longest error of the non-zero-exit path.
ShortMessage == {1}
ExceptionLens == ShortMessage \cup {ExitPrefixLen + STDERR_LIMIT + 1}

None == -1

Terminal == {"COMPLETED", "FAILED", "STOPPED"}
JobStatus == {"PENDING", "RUNNING"} \cup Terminal

Objs == 1..Len(jobs)

(***************************************************************************)
(* dataclass Job: a new object is PENDING with every optional field None.  *)
(* The error string is kept as its kind (error), its length in characters  *)
(* (error_len) and the slice <<first, last>> of the positions of the       *)
(* child's error stream that it contains (detail; <<1, 0>> is empty).      *)
(***************************************************************************)
Job(job_id, runtimeSeconds) ==
    [job_id |-> job_id, runtimeSeconds |-> runtimeSeconds,
     status |-> "PENDING", process |-> FALSE,
     started_at |-> None, ended_at |-> None, error |-> "None",
     error_len |-> 0, detail |-> <<1, 0>>]

NoOp == [op |-> "none", id |-> 0, obj |-> 0, ret |-> "None", n |-> 0,
         prev |-> -1]

Step == [NoOp EXCEPT !.op = "step"]

(***************************************************************************)
(* An IoTDeviceUser (locustfile.py).  device_seed is hash(device_id) %     *)
(* 10000, start_time the _start_time attribute (None while unset), time    *)
(* the value of time.time() in milliseconds, last and prev the readings of *)
(* the two latest payloads (length: the number of bytes of the payload),   *)
(* message_size the LOADTEST_MESSAGE_SIZE setting.  prng remembers, for    *)
(* every seed given to                                                     *)
(* random.seed so far, the three values random.random() returns after it:  *)
(* the generator is a function of its seed.                                *)
(***************************************************************************)
NoPayload ==
    [second |-> None, temperature |-> 0, humidity |-> 0, pressure |-> 0,
     padding |-> 0, length |-> 0]

NewDevice(seed, size) ==
    [device_seed |-> seed, message_size |-> size, start_time |-> None,
     time |-> 0, steps |-> 0, prng |-> << >>, last |-> NoPayload,
     prev |-> NoPayload]

(***************************************************************************)
(* An IoTDeviceUser as run_test sees it (locustfile.py, lines 42-65), and  *)
(* its driver (protocols/*.py).  Times are in milliseconds.                *)
(*   connected      the user's own flag (line 63), not the driver's        *)
(*   pc             where the user's greenlet is                           *)
(*   i              publishes done by the burst loop                       *)
(*   since_last     time.time() - self.last_publish, cut at the publish    *)
(*                  interval (line 154 only asks whether it is smaller)    *)
(*   since_pub      time since the driver's publish was last called, cut   *)
(*                  at the publish interval; None before the first call    *)
(*   began_stable   the broker was accepting for good when the tick began  *)
(*   trace          what the user did since its tick began, in order:      *)
(*                  driver calls, sleeps, the dispatch, events fired       *)
(* The driver:                                                             *)
(*   _connected     the flag behind is_connected                           *)
(*   _connect_error MQTTDevice._connect_error is set (never reset)         *)
(*   closed         HTTPClient._client has been closed                     *)
(*   loop           the network thread of the paho client is running       *)
(*   qos            MQTTDevice.qos, the QoS of a publish that names none   *)
(***************************************************************************)
NewUser(protocol, test_type, interval) ==
    [protocol |-> protocol, test_type |-> test_type,
     publish_interval |-> interval, connected |-> FALSE, pc |-> "init",
     i |-> 0, since_last |-> interval, since_pub |-> None,
     began_stable |-> FALSE, trace |-> << >>]

DEFAULT_QOS == 1

NewClient ==
    [_connected |-> FALSE, _connect_error |-> FALSE, closed |-> FALSE,
     loop |-> FALSE, qos |-> DEFAULT_QOS]

\* No call has been made on the driver directly.
NoCall ==
    [op |-> "none", before |-> NewClient, after |-> NewClient,
     broker |-> "up", raised |-> FALSE, error |-> "None", qos |-> None,
     waited |-> FALSE]

\* No job has been launched.
NoLaunch == [config |-> << >>, env |-> << >>, settings |-> << >>]

Init ==
    /\ jobs = << >>
    /\ table = << >>
    /\ task = << >>
    /\ child = << >>
    /\ stderr = << >>
    /\ JOBS_RUNNING = 0
    /\ now = 0
    /\ ticks = 0
    /\ lastOp = NoOp
    /\ device = NewDevice(0, DEFAULT_MESSAGE_SIZE)
    /\ user = NewUser("mqtt", "telemetry", DEFAULT_INTERVAL)
    /\ client = NewClient
    /\ broker = "up"
    /\ call = NoCall
    /\ launch = NoLaunch

(***************************************************************************)
(* JobManager.running_count: the jobs of the table whose status is RUNNING *)
(***************************************************************************)
running_count ==
    Cardinality({id \in DOMAIN table : jobs[table[id]].status = "RUNNING"})

\* Variant of the capacity test that admits a create at the ceiling.
AtCapacityOffByOne == running_count > MAX_CONCURRENT_JOBS

AtCapacity == running_count >= MAX_CONCURRENT_JOBS

(***************************************************************************)
(* asyncio.create_task(self._run_job(job)): the task is scheduled and has  *)
(* run nothing yet.  observed counts its JOB_DURATION observations;        *)
(* expired tells that its wait_for has raised TimeoutError.                *)
(***************************************************************************)
\* Variant in which create_job awaits _run_job instead of scheduling it.
NewTaskAwaited ==
    [pc |-> "done", deadline |-> None, observed |-> 0, expired |-> FALSE]

NewTask ==
    [pc |-> "created", deadline |-> None, observed |-> 0, expired |-> FALSE]

(***************************************************************************)
(* create_job.  The lock is free whenever create_job starts, because no    *)
(* holder of the lock awaits while holding it; the body runs in one        *)
(* stretch.  create_task only schedules _run_job: the task has not run     *)
(* when create_job returns.                                                *)
(***************************************************************************)
CreateJob(job_id, runtimeSeconds, maxObjs) ==
    IF AtCapacity
    THEN /\ lastOp' = [NoOp EXCEPT !.op = "create", !.ret = "ValueError"]
         /\ UNCHANGED <<jobs, table, task, child, stderr, JOBS_RUNNING, now, ticks, device, user, client, broker, call, launch>>
    ELSE /\ Len(jobs) < maxObjs
         /\ jobs' = Append(jobs, Job(job_id, runtimeSeconds))
         /\ table' = (job_id :> (Len(jobs) + 1)) @@ table
         /\ task' = Append(task, NewTask)
         /\ child' = Append(child, "none")
         /\ stderr' = Append(stderr, 0)
         /\ lastOp' = [NoOp EXCEPT !.op = "create", !.id = job_id,
                                   !.obj = Len(jobs) + 1, !.ret = "Job"]
         /\ UNCHANGED <<JOBS_RUNNING, now, ticks, device, user, client, broker, call, launch>>

(***************************************************************************)
(* _run_job, first stretch (lines 76-96): mark the job RUNNING, count it   *)
(* in the gauge, build the command and suspend in create_subprocess_exec.  *)
(***************************************************************************)
RunJobStart(o) ==
    /\ task[o].pc = "created"
    /\ jobs' = [jobs EXCEPT ![o].status = "RUNNING", ![o].started_at = now]
    /\ JOBS_RUNNING' = JOBS_RUNNING + 1
    /\ task' = [task EXCEPT ![o].pc = "spawn"]
    /\ lastOp' = Step
    /\ UNCHANGED <<table, child, stderr, now, ticks, device, user, client, broker, call, launch>>

(***************************************************************************)
(* The finally block of _run_job (lines 149-158): end time, gauge          *)
(* decrement and, when the job has a start time, one duration observation. *)
(***************************************************************************)
\* Variant of the cleanup step that does not record the end time.
FinallyJobUnstamped(j) == [j EXCEPT !.ended_at = @]

FinallyJob(j) == [j EXCEPT !.ended_at = now]

FinallyTask(t, j) ==
    [t EXCEPT !.pc = "done", !.deadline = None,
              !.observed = IF j.started_at # None THEN @ + 1 ELSE @]

(***************************************************************************)
(* except Exception (lines 141-143): FAILED, and the error is str(e), of    *)
(* whatever length m the message of the exception has.                     *)
(*                                                                         *)
(* create_subprocess_exec raised (the locust executable is missing, the    *)
(* fork failed): except Exception (lines 141-147), then finally.           *)
(***************************************************************************)
ExceptJob(j, m) ==
    [j EXCEPT !.status = "FAILED", !.error = "exception", !.error_len = m]

SpawnFail(o, m) ==
    /\ task[o].pc = "spawn"
    /\ jobs' = [jobs EXCEPT ![o] = FinallyJob(ExceptJob(@, m))]
    /\ JOBS_RUNNING' = JOBS_RUNNING - 1
    /\ task' = [task EXCEPT ![o] = FinallyTask(@, jobs[o])]
    /\ lastOp' = Step
    /\ UNCHANGED <<table, child, stderr, now, ticks, device, user, client, broker, call, launch>>

(***************************************************************************)
(* create_subprocess_exec returned (lines 96-108): the handle is stored    *)
(* and the task suspends in wait_for(process.wait(), runtimeSeconds + 60). *)
(***************************************************************************)
SpawnOk(o) ==
    /\ task[o].pc = "spawn"
    /\ jobs' = [jobs EXCEPT ![o].process = TRUE]
    /\ child' = [child EXCEPT ![o] = "alive"]
    /\ task' = [task EXCEPT
                  ![o].pc = "wait",
                  ![o].deadline = now + jobs[o].runtimeSeconds
                                      + WaitGraceSeconds]
    /\ lastOp' = Step
    /\ UNCHANGED <<table, stderr, JOBS_RUNNING, now, ticks, device, user, client, broker, call, launch>>

(***************************************************************************)
(* The child process.  It runs in parallel with the event loop and exits   *)
(* when it chooses, with exit code zero ("exit0") or not ("exit1"); "term" *)
(* is a living child that has been sent SIGTERM, "killed" one that was     *)
(* sent SIGKILL.                                                           *)
(***************************************************************************)
Living == {"alive", "term"}
Exited == {"exit0", "exit1", "killed"}

ChildExit(o, how, n) ==
    /\ child[o] \in Living
    /\ child' = [child EXCEPT ![o] = how]
    /\ stderr' = [stderr EXCEPT ![o] = n]
    /\ lastOp' = Step
    /\ UNCHANGED <<jobs, table, task, JOBS_RUNNING, now, ticks, device, user, client, broker, call, launch>>

(***************************************************************************)
(* process.returncode of an exited child, process.wait() (lines 108, 130), *)
(* which returns once the loop has seen the child exit and has reaped it,  *)
(* and process.kill() (line 129).                                          *)
(***************************************************************************)
returncode(c) == IF c = "exit0" THEN 0 ELSE IF c = "exit1" THEN 1 ELSE -9

\* Variant of the test of line 110 that only asks for an exit code.
ExitedAtAll(c) == c \in Exited

ExitedCleanly(c) == returncode(c) = 0

\* Variant in which process.wait() is not awaited.
ReapedNotAwaited(c) == c \in Living \cup Exited

Reaped(c) == c \in Exited

\* Variant in which the timeout path does not kill the child.
KillSkipped(c) == IF c \in Living THEN c ELSE c

Kill(c) == IF c \in Living THEN "killed" ELSE c

\* Variant without the timeout of wait_for.
NeverTimedOut(t) == now >= t.deadline /\ t.deadline = None

TimedOut(t) == now >= t.deadline

(***************************************************************************)
(* stderr[:500] (line 121) on a stream of n characters: the slice of       *)
(* positions that is kept.                                                 *)
(***************************************************************************)
Min(a, b) == IF a <= b THEN a ELSE b

Truncate(n) == <<1, Min(n, STDERR_LIMIT)>>

SliceLen(sl) == sl[2] - sl[1] + 1

(***************************************************************************)
(* process.wait() returned before the timeout (lines 110-125).  A zero     *)
(* exit code goes straight through finally; a non-zero one sets FAILED and *)
(* suspends in process.stderr.read().                                      *)
(***************************************************************************)
WaitReturn(o) ==
    /\ task[o].pc = "wait"
    /\ Reaped(child[o])
    /\ IF ExitedCleanly(child[o])
       THEN /\ jobs' = [jobs EXCEPT
                          ![o] = FinallyJob([@ EXCEPT !.status = "COMPLETED"])]
            /\ JOBS_RUNNING' = JOBS_RUNNING - 1
            /\ task' = [task EXCEPT ![o] = FinallyTask(@, jobs[o])]
       ELSE /\ jobs' = [jobs EXCEPT ![o].status = "FAILED"]
            /\ task' = [task EXCEPT ![o].pc = "stderr", ![o].deadline = None]
            /\ UNCHANGED JOBS_RUNNING
    /\ lastOp' = Step
    /\ UNCHANGED <<table, child, stderr, now, ticks, device, user, client, broker, call, launch>>

(***************************************************************************)
(* stderr.read() returned (lines 119-125): the error detail                *)
(* f"Exit code {returncode}: {stderr[:500]}", then finally.                *)
(***************************************************************************)
ExitErrorJob(j, n) ==
    [j EXCEPT !.error = "exit",
              !.detail = Truncate(n),
              !.error_len = ExitPrefixLen + SliceLen(Truncate(n))]

ReadStderr(o) ==
    /\ task[o].pc = "stderr"
    /\ jobs' = [jobs EXCEPT ![o] = FinallyJob(ExitErrorJob(@, stderr[o]))]
    /\ JOBS_RUNNING' = JOBS_RUNNING - 1
    /\ task' = [task EXCEPT ![o] = FinallyTask(@, jobs[o])]
    /\ lastOp' = Step
    /\ UNCHANGED <<table, child, stderr, now, ticks, device, user, client, broker, call, launch>>

(***************************************************************************)
(* stderr.read() or the decoding of what it returned raised (lines         *)
(* 119-120): except Exception, then finally.                               *)
(***************************************************************************)
ReadStderrRaises(o, m) ==
    /\ task[o].pc = "stderr"
    /\ jobs' = [jobs EXCEPT ![o] = FinallyJob(ExceptJob(@, m))]
    /\ JOBS_RUNNING' = JOBS_RUNNING - 1
    /\ task' = [task EXCEPT ![o] = FinallyTask(@, jobs[o])]
    /\ lastOp' = Step
    /\ UNCHANGED <<table, child, stderr, now, ticks, device, user, client, broker, call, launch>>

(***************************************************************************)
(* The timer of wait_for fires while the child has not exited (line 108):  *)
(* wait_for cancels process.wait() and raises TimeoutError once the        *)
(* cancellation has been delivered, a later turn of the event loop.        *)
(***************************************************************************)
WaitTimeout(o) ==
    /\ task[o].pc = "wait"
    /\ child[o] \in Living
    /\ TimedOut(task[o])
    /\ task' = [task EXCEPT ![o].pc = "timedout", ![o].deadline = None,
                            ![o].expired = TRUE]
    /\ lastOp' = Step
    /\ UNCHANGED <<jobs, table, child, stderr, JOBS_RUNNING, now, ticks, device, user, client, broker, call, launch>>

(***************************************************************************)
(* Lines 134-139, then finally.                                            *)
(***************************************************************************)
TimeoutFail(o) ==
    /\ jobs' = [jobs EXCEPT
                  ![o] = FinallyJob([@ EXCEPT !.status = "FAILED",
                                              !.error = "Job timed out",
                                              !.error_len = TimeoutErrorLen])]
    /\ JOBS_RUNNING' = JOBS_RUNNING - 1
    /\ task' = [task EXCEPT ![o] = FinallyTask(@, jobs[o])]

(***************************************************************************)
(* The handler of TimeoutError (lines 127-132).  A living child is killed  *)
(* and the task suspends in process.wait().  A child that exited after the *)
(* timer fired is not signalled (kill() does nothing, or raises the        *)
(* ProcessLookupError that line 131 swallows) and process.wait() has       *)
(* nothing to wait for: the handler runs on to finally.                    *)
(***************************************************************************)
KillChild(o) ==
    /\ task[o].pc = "timedout"
    /\ IF child[o] \in Living
       THEN /\ child' = [child EXCEPT ![o] = Kill(@)]
            /\ task' = [task EXCEPT ![o].pc = "reap"]
            /\ UNCHANGED <<jobs, JOBS_RUNNING>>
       ELSE /\ TimeoutFail(o)
            /\ UNCHANGED child
    /\ lastOp' = Step
    /\ UNCHANGED <<table, stderr, now, ticks, device, user, client, broker, call, launch>>

(***************************************************************************)
(* process.wait() of line 130 returned: the killed child was reaped.       *)
(***************************************************************************)
AfterKill(o) ==
    /\ task[o].pc = "reap"
    /\ Reaped(child[o])
    /\ TimeoutFail(o)
    /\ lastOp' = Step
    /\ UNCHANGED <<table, child, stderr, now, ticks, device, user, client, broker, call, launch>>

(***************************************************************************)
(* job.process.wait(timeout=10) in stop_job (line 206).  The handle stored *)
(* at line 103 is the asyncio.subprocess.Process that                      *)
(* create_subprocess_exec returns, and its wait() is a coroutine function  *)
(* without a timeout parameter: the call raises TypeError when it is made. *)
(* The handlers of stop_job catch subprocess.TimeoutExpired only.          *)
(* PopenWaitOutcomes is what the call would do on the subprocess.Popen     *)
(* that the Job dataclass declares (line 27).                              *)
(***************************************************************************)
PopenWaitOutcomes == {"returned", "TimeoutExpired"}

ProcessWaitOutcomes == {"TypeError"}

(***************************************************************************)
(* stop_job (lines 197-215).  It contains no await: it is one stretch.     *)
(* send_signal on a child that has already exited either does nothing or,  *)
(* once the loop has closed the transport, raises ProcessLookupError.      *)
(***************************************************************************)
\* Variant of the guard of line 203 without the status test.
StopGuardHandleOnly(j) == j.process

StopGuard(j) == j.status = "RUNNING" /\ j.process

StopJob(job_id) ==
    IF job_id \notin DOMAIN table
    THEN /\ lastOp' = [NoOp EXCEPT !.op = "stop", !.id = job_id,
                                   !.ret = "False"]
         /\ UNCHANGED <<jobs, table, task, child, stderr, JOBS_RUNNING, now, ticks, device, user, client, broker, call, launch>>
    ELSE LET o == table[job_id] IN
         IF ~StopGuard(jobs[o])
         THEN /\ lastOp' = [NoOp EXCEPT !.op = "stop", !.id = job_id,
                                        !.obj = o, !.ret = "False"]
              /\ UNCHANGED <<jobs, table, task, child, stderr, JOBS_RUNNING, now,
                             ticks, device, user, client, broker, call, launch>>
         ELSE \E w \in ProcessWaitOutcomes
                         \cup (IF child[o] \in Exited
                               THEN {"ProcessLookupError"} ELSE {}) :
              /\ lastOp' = [NoOp EXCEPT
                              !.op = "stop", !.id = job_id, !.obj = o,
                              !.ret = IF w \in {"returned", "TimeoutExpired"}
                                      THEN "True" ELSE w]
              /\ child' = [child EXCEPT
                             ![o] = IF @ \in Exited THEN @
                                    ELSE IF w = "returned" THEN "exit1"
                                    ELSE IF w = "TimeoutExpired" THEN "killed"
                                    ELSE "term"]
              /\ IF w \in {"returned", "TimeoutExpired"}
                 THEN /\ jobs' = [jobs EXCEPT ![o].status = "STOPPED",
                                              ![o].ended_at = now]
                      /\ JOBS_RUNNING' = JOBS_RUNNING - 1
                 ELSE UNCHANGED <<jobs, JOBS_RUNNING>>
              /\ UNCHANGED <<table, task, stderr, now, ticks, device, user, client, broker, call, launch>>

(***************************************************************************)
(* cleanup_expired (lines 221-234).                                        *)
(***************************************************************************)
\* Variant of the age test of line 228 that also expires an age of exactly
\* JOB_TTL_SECONDS.
IsExpiredAtTTL(j) ==
    j.ended_at # None /\ now - j.ended_at >= JOB_TTL_SECONDS

IsExpired(j) ==
    j.ended_at # None /\ now - j.ended_at > JOB_TTL_SECONDS

\* Variant of the collection loop that stops at the first expired job.
ExpiredFirstOnly ==
    LET all == {id \in DOMAIN table : IsExpired(jobs[table[id]])}
    IN  IF all = {} THEN {}
        ELSE {CHOOSE id \in all : \A other \in all : id <= other}

Expired == {id \in DOMAIN table : IsExpired(jobs[table[id]])}

CleanupExpired ==
    /\ table' = [id \in DOMAIN table \ Expired |-> table[id]]
    /\ lastOp' = [NoOp EXCEPT !.op = "cleanup", !.n = Cardinality(Expired),
                              !.prev = IF lastOp.op = "cleanup"
                                       THEN lastOp.n ELSE -1]
    /\ UNCHANGED <<jobs, task, child, stderr, JOBS_RUNNING, now, ticks, device, user, client, broker, call, launch>>

(***************************************************************************)
(* The clock.                                                              *)
(***************************************************************************)
Tick(d) ==
    /\ ticks < MaxTicks
    /\ now' = now + d
    /\ ticks' = ticks + 1
    /\ lastOp' = Step
    /\ UNCHANGED <<jobs, table, task, child, stderr, JOBS_RUNNING, device, user, client, broker, call, launch>>

Next ==
    \/ \E rt \in ConfigRuntimes : CreateJob(Len(jobs) + 1, rt, MaxJobs)
    \/ \E o \in Objs : RunJobStart(o)
    \/ \E o \in Objs, m \in ExceptionLens : SpawnFail(o, m)
    \/ \E o \in Objs : SpawnOk(o)
    \/ \E o \in Objs : ChildExit(o, "exit0", 0)
    \/ \E o \in Objs, n \in StderrLens : ChildExit(o, "exit1", n)
    \/ \E o \in Objs : WaitReturn(o)
    \/ \E o \in Objs : ReadStderr(o)
    \/ \E o \in Objs, m \in ShortMessage : ReadStderrRaises(o, m)
    \/ \E o \in Objs : WaitTimeout(o)
    \/ \E o \in Objs : KillChild(o)
    \/ \E o \in Objs : AfterKill(o)
    \/ \E id \in 1..(MaxJobs + 1) : StopJob(id)
    \/ CleanupExpired
    \/ \E d \in TickSteps : Tick(d)

Spec == Init /\ [][Next]_vars

(***************************************************************************)
(* The capacity specification: enough Job objects to reach the ceiling of  *)
(* five running jobs, each identifier either fresh or a repeat of the      *)
(* first one, and the supervision paths that end without a child process.  *)
(***************************************************************************)
CapIds == {Len(jobs) + 1, 1}

CapNext ==
    \/ \E id \in CapIds, rt \in ConfigRuntimes : CreateJob(id, rt, MaxCapJobs)
    \/ \E o \in Objs : RunJobStart(o)
    \/ \E o \in Objs, m \in ShortMessage : SpawnFail(o, m)
    \/ \E id \in 1..MaxCapJobs : StopJob(id)

CapSpec == Init /\ [][CapNext]_vars

(***************************************************************************)
(* The retention specification: two Job objects whose identifiers may      *)
(* collide, the supervision path that ends without a child process, the    *)
(* clock and the sweep.                                                    *)
(***************************************************************************)
SweepNext ==
    \/ \E id \in JobIds, rt \in ConfigRuntimes :
          CreateJob(id, rt, MaxSweepJobs)
    \/ \E o \in Objs : RunJobStart(o)
    \/ \E o \in Objs, m \in ShortMessage : SpawnFail(o, m)
    \/ \E id \in JobIds : StopJob(id)
    \/ CleanupExpired
    \/ \E d \in TickSteps : Tick(d)

SweepSpec == Init /\ [][SweepNext]_vars

(***************************************************************************)
(* The liveness specification: the steps of every supervision task are     *)
(* taken (the event loop runs every ready task) and the timer of wait_for  *)
(* runs while a task waits for its deadline; the child process is free to  *)
(* exit or to hang.                                                        *)
(***************************************************************************)
TimerTick(d) ==
    /\ \E o \in Objs : task[o].pc = "wait" /\ now < task[o].deadline
    /\ now' = now + d
    /\ lastOp' = Step
    /\ UNCHANGED <<jobs, table, task, child, stderr, JOBS_RUNNING, ticks, device, user, client, broker, call, launch>>

TaskStep(o) ==
    /\ o \in Objs
    /\ \/ RunJobStart(o)
       \/ SpawnOk(o)
       \/ \E m \in ShortMessage : SpawnFail(o, m)
       \/ WaitReturn(o)
       \/ ReadStderr(o)
       \/ \E m \in ShortMessage : ReadStderrRaises(o, m)
       \/ WaitTimeout(o)
       \/ KillChild(o)
       \/ AfterKill(o)

LiveNext ==
    \/ \E rt \in LiveRuntimes : CreateJob(Len(jobs) + 1, rt, MaxLiveJobs)
    \/ \E o \in 1..MaxLiveJobs : TaskStep(o)
    \/ \E o \in Objs : ChildExit(o, "exit0", 0)
    \/ \E o \in Objs, n \in StderrLens : ChildExit(o, "exit1", n)
    \/ \E id \in 1..MaxLiveJobs : StopJob(id)
    \/ \E d \in TickSteps : TimerTick(d)

LiveSpec ==
    /\ Init
    /\ [][LiveNext]_vars
    /\ \A o \in 1..MaxLiveJobs : WF_vars(TaskStep(o))
    /\ WF_vars(\E d \in TickSteps : TimerTick(d))

(***************************************************************************)
(* _generate_payload (locustfile.py, lines 186-227).  Times are in         *)
(* milliseconds, sensor values in units of 1/Unit before rounding and in   *)
(* hundredths after round(..., 2).                                         *)
(***************************************************************************)
jobVars == <<jobs, table, task, child, stderr, JOBS_RUNNING, now, ticks,
            lastOp>>
userVars == <<user, client, broker>>

DeviceSeeds == {0, 29, SEED_MODULUS - 1}
DevTickSteps == {900, CYCLE_SECONDS * MsPerSecond - 900}
RandomDraws == {0, Unit - 1}

\* LOADTEST_MESSAGE_SIZE: below the floor, at the floor, the default.
MessageSizes == {PAD_FLOOR - 1, PAD_FLOOR, DEFAULT_MESSAGE_SIZE}

Max(a, b) == IF a >= b THEN a ELSE b

\* random.uniform(a, b) is a + (b - a) * random.random(); r is the value of
\* random.random() in units of 1/Unit.
Uniform(a, b, r) == a + ((b - a) * r) \div Unit

\* round(v, 2)
Round2(v) == (v + (Unit \div 200)) \div (Unit \div 100)

\* int(elapsed)
WholeSecond(e) == e \div MsPerSecond

\* Lines 200-203.
Temperature(seed, e, r) ==
    Round2((20 + (seed % 20) - 10) * Unit
           + (5 * e * (Unit \div MsPerSecond)) \div 3600
           + Uniform(0 - Unit \div 2, Unit \div 2, r))

\* The value that line 209 clamps and rounds (lines 206-208).
HumidityRaw(seed, e, r) ==
    (50 + (seed % 30) - 15) * Unit
    + 10 * Unit
    + (10 * (e % (CYCLE_SECONDS * MsPerSecond)) * (Unit \div MsPerSecond))
         \div CYCLE_SECONDS
    + Uniform(0 - 2 * Unit, 2 * Unit, r)

\* Variant of the humidity without the clamp of line 209, on a baseline
\* that is not reduced modulo 30.
HumidityUnclamped(seed, e, r) ==
    Round2(HumidityRaw(seed, e, r) + (seed - (seed % 30)) * Unit)

\* Line 209.
Humidity(seed, e, r) ==
    Round2(Max(0, Min(100 * Unit, HumidityRaw(seed, e, r))))

\* Lines 212-214.
Pressure(seed, r) ==
    Round2((1013 + (seed % 20) - 10) * Unit
           + Uniform(0 - Unit \div 2, Unit \div 2, r))

\* Number of decimal digits of a natural number.
RECURSIVE Digits(_)
Digits(n) == IF n < 10 THEN 1 ELSE 1 + Digits(n \div 10)

\* len(json.dumps(x)) for a non-negative float x that round(., 2) returned,
\* given in hundredths: the integer part, the point, and one fractional
\* digit when the second one is zero ("72.0", "18.5"), else two ("72.03").
FloatLen(c) == Digits(c \div 100) + 1 + (IF c % 10 = 0 THEN 1 ELSE 2)

\* Line 225.
Padding(size, t, h, p) == Max(0, size - PAD_FLOOR)

\* len(json.dumps(data).encode()) (lines 219-227): every character is ASCII.
PayloadLength(t, h, p, pad) ==
    RECORD_OVERHEAD + FloatLen(t) + FloatLen(h) + FloatLen(p) + pad

\* Line 192: zero on the first call, when _start_time is not set yet.
Elapsed(d) == IF d.start_time = None THEN 0 ELSE d.time - d.start_time

GeneratePayload ==
    LET e == Elapsed(device)
        key == device.device_seed + WholeSecond(e)
        draws == IF key \in DOMAIN device.prng
                 THEN {device.prng[key]}
                 ELSE RandomDraws \X RandomDraws \X RandomDraws
    IN  /\ \E r \in draws :
             LET t == Temperature(device.device_seed, e, r[1])
                 h == Humidity(device.device_seed, e, r[2])
                 p == Pressure(device.device_seed, r[3])
                 pad == Padding(device.message_size, t, h, p)
             IN  device' =
                    [device EXCEPT
                       !.start_time = IF @ = None THEN device.time ELSE @,
                       !.prng = (key :> r) @@ @,
                       !.prev = device.last,
                       !.last =
                          [second |-> WholeSecond(e),
                           temperature |-> t,
                           humidity |-> h,
                           pressure |-> p,
                           padding |-> pad,
                           length |-> PayloadLength(t, h, p, pad)]]
        /\ UNCHANGED <<jobVars, userVars, call, launch>>

\* time.time() advances between two calls.
DevTick(d) ==
    /\ device.steps < MaxDevTicks
    /\ device' = [device EXCEPT !.time = @ + d, !.steps = @ + 1]
    /\ UNCHANGED <<jobVars, userVars, call, launch>>

PayloadInit ==
    /\ jobs = << >>
    /\ table = << >>
    /\ task = << >>
    /\ child = << >>
    /\ stderr = << >>
    /\ JOBS_RUNNING = 0
    /\ now = 0
    /\ ticks = 0
    /\ lastOp = NoOp
    /\ device \in {NewDevice(s, m) : s \in DeviceSeeds, m \in MessageSizes}
    /\ user = NewUser("mqtt", "telemetry", DEFAULT_INTERVAL)
    /\ client = NewClient
    /\ broker = "up"
    /\ call = NoCall
    /\ launch = NoLaunch

PayloadNext ==
    \/ GeneratePayload
    \/ \E d \in DevTickSteps : DevTick(d)

PayloadSpec == PayloadInit /\ [][PayloadNext]_vars

(***************************************************************************)
(* The protocol drivers (protocols/mqtt_device.py, amqp_device.py,         *)
(* http_client.py).  The broker is "up", "down" (unreachable), "refuse"    *)
(* (reachable, answers a connect with a non-zero reason code or an error   *)
(* status), "stable" (up, and it stays up) or, for the calls made on a     *)
(* driver directly, "silent" (accepts the connection and never answers).   *)
(* A call returns the set of its possible outcomes: the driver afterwards  *)
(* and whether it raised.                                                  *)
(***************************************************************************)
Protocols == {"mqtt", "amqp", "http"}
TestTypes ==
    {"telemetry", "burst", "churn", "retained", "command", "offline", "lwt"}
Intervals == {DEFAULT_INTERVAL, SLOW_INTERVAL}
ChurnSleeps == {CHURN_SLEEP_MIN, CHURN_SLEEP_MAX}
OfflineSleeps == {OFFLINE_SLEEP_MIN, OFFLINE_SLEEP_MAX}

Brokers == {"up", "down", "refuse", "stable"}
DriverBrokers == Brokers \cup {"silent"}

BrokerAccepts(b) == b \in {"up", "stable"}

\* An HTTP server answers, with whatever status.
HttpResponds(b) == b \notin {"down", "silent"}

Returned(c) == [client |-> c, raised |-> FALSE]
Raised(c) == [client |-> c, raised |-> TRUE]

\* MQTTDevice.connect (lines 103-134).  client.connect raises when the
\* broker is unreachable; a CONNACK with a non-zero code sets _connect_error
\* and the wait loop raises; _connect_error is never reset, so a later
\* connect raises at the first turn of the wait loop unless the CONNACK of
\* the new connection has already arrived.
MqttConnect(c, b) ==
    IF b = "down" THEN {Raised(c)}
    ELSE IF c._connected THEN {Returned([c EXCEPT !.loop = TRUE])}
    ELSE IF b = "refuse"
    THEN {Raised([c EXCEPT !._connect_error = TRUE, !.loop = TRUE])}
    ELSE IF b = "silent" THEN {Raised([c EXCEPT !.loop = TRUE])}
    ELSE {Returned([c EXCEPT !._connected = TRUE, !.loop = TRUE])}
         \cup (IF c._connect_error
               THEN {Raised([c EXCEPT !.loop = TRUE])}
               ELSE {})

\* AMQPDevice.connect (lines 48-57): no network call is made.
AmqpConnect(c, b) == {Returned([c EXCEPT !._connected = TRUE])}

\* http_client.py lines 33-34: GET /health raises, or raise_for_status
\* does.  A closed httpx.Client raises RuntimeError on every request.
HealthFails(c, b) == c.closed \/ ~HttpResponds(b) \/ b = "refuse"

\* Line 39: GET / raises; its status is not looked at.
RootFails(c, b) == c.closed \/ ~HttpResponds(b)

\* HTTPClient.connect (lines 30-42): both handlers catch Exception.
HttpConnect(c, b) ==
    IF HealthFails(c, b) /\ RootFails(c, b)
    THEN {Raised(c)}
    ELSE {Returned([c EXCEPT !._connected = TRUE])}

ConnectOutcomes(c, protocol, b) ==
    IF protocol = "mqtt" THEN MqttConnect(c, b)
    ELSE IF protocol = "amqp" THEN AmqpConnect(c, b)
    ELSE HttpConnect(c, b)

\* disconnect of the three drivers (mqtt 136-140, amqp 59-65, http 44-47).
Disconnect(c, protocol) ==
    IF protocol = "mqtt"
    THEN [c EXCEPT !._connected = FALSE, !.loop = FALSE]
    ELSE IF protocol = "amqp"
    THEN [c EXCEPT !._connected = FALSE]
    ELSE [c EXCEPT !._connected = FALSE, !.closed = TRUE]

\* Variant of the guard of publish that lets the call through.
NotConnectedIgnored(c) == c._connected /\ ~c._connected

\* The guard of publish and subscribe (mqtt 151, 176; amqp 74, 88; http 58).
NotConnected(c) == ~c._connected

\* publish of the three drivers (mqtt 142-172, amqp 67-84, http 49-79):
\* whether it raised and whether the message was handed to the network.
\* A connected MQTT driver whose broker is gone queues the message or
\* fails in wait_for_publish; a connected HTTP driver cannot send.
PublishOutcomes(c, protocol, b) ==
    IF NotConnected(c) THEN {[raised |-> TRUE, sent |-> FALSE]}
    ELSE IF protocol = "mqtt"
    THEN {[raised |-> FALSE, sent |-> TRUE]}
         \cup (IF BrokerAccepts(b) THEN {}
               ELSE {[raised |-> TRUE, sent |-> TRUE]})
    ELSE IF protocol = "amqp" THEN {[raised |-> FALSE, sent |-> TRUE]}
    ELSE IF HttpResponds(b) THEN {[raised |-> FALSE, sent |-> TRUE]}
    ELSE {[raised |-> TRUE, sent |-> FALSE]}

\* subscribe (mqtt 174-179, amqp 86-92, http 81-83): TRUE when it raises.
SubscribeRaises(c, protocol) == protocol # "http" /\ NotConnected(c)

(***************************************************************************)
(* What a tick records in user.trace.                                      *)
(***************************************************************************)
CallEntry(name, raised, sent, spaced) ==
    [kind |-> "call", name |-> name, failed |-> raised, sent |-> sent,
     spaced |-> spaced]

\* events.request.fire(request_type, name, response_time, response_length,
\* exception): kind, latency and size are arguments of every call.
EventEntry(name, failed) ==
    [kind |-> "event", name |-> name, failed |-> failed, sent |-> FALSE,
     spaced |-> TRUE]

SleepEntry(name) ==
    [kind |-> "sleep", name |-> name, failed |-> FALSE, sent |-> FALSE,
     spaced |-> TRUE]

DispatchEntry(name) ==
    [kind |-> "dispatch", name |-> name, failed |-> FALSE, sent |-> FALSE,
     spaced |-> TRUE]

\* time.sleep(d), or d milliseconds passing in any other way.
Advance(u, d) ==
    [u EXCEPT !.since_last = Min(@ + d, u.publish_interval),
              !.since_pub = IF @ = None THEN None
                            ELSE Min(@ + d, u.publish_interval)]

\* The publish interval has passed since the driver's publish was called.
Spaced(u) == u.since_pub = None \/ u.since_pub >= u.publish_interval

\* Variant of the handler of run_test that lets the exception escape.
Uncaught(u) == [u EXCEPT !.pc = "crashed"]

\* except Exception of run_test (lines 177-184): one failed event named
\* after the test type; the task function returns.
Caught(u) ==
    [u EXCEPT !.trace = Append(@, EventEntry(u.test_type, TRUE)),
              !.pc = "idle", !.i = 0]

\* The dispatch of lines 160-175.
HandlerPc(test_type) ==
    IF test_type \in {"telemetry", "lwt"} THEN "publish" ELSE test_type

(***************************************************************************)
(* The user's greenlet.  Each action is one stretch between two points     *)
(* where it blocks (a network call of the driver, a sleep).  Driver calls  *)
(* take no time on the model's clock; only sleeps do.                      *)
(***************************************************************************)
\* on_start (lines 67-112): build the driver and connect; one connect event.
OnStart ==
    /\ user.pc = "init"
    /\ \E r \in ConnectOutcomes(client, user.protocol, broker) :
          /\ client' = r.client
          /\ user' = [user EXCEPT
                        !.connected = ~r.raised,
                        !.pc = "idle",
                        !.trace = <<CallEntry("connect", r.raised, FALSE, TRUE),
                                    EventEntry("connect", r.raised)>>]
    /\ UNCHANGED <<jobVars, device, broker, call, launch>>

\* run_test on a disconnected user (lines 125-139): one connect; on success
\* the flag, the event and the return of line 149; on failure the task
\* goes to sleep.
Reconnect ==
    /\ user.pc = "idle"
    /\ ~user.connected
    /\ \E r \in ConnectOutcomes(client, user.protocol, broker) :
          /\ client' = r.client
          /\ user' =
                IF r.raised
                THEN [user EXCEPT
                        !.pc = "backoff",
                        !.began_stable = (broker = "stable"),
                        !.trace = <<CallEntry("connect", TRUE, FALSE, TRUE)>>]
                ELSE [user EXCEPT
                        !.connected = TRUE,
                        !.began_stable = (broker = "stable"),
                        !.trace = <<CallEntry("connect", FALSE, FALSE, TRUE),
                                    EventEntry("reconnect_success", FALSE)>>]
    /\ UNCHANGED <<jobVars, device, broker, call, launch>>

\* Lines 141-149: the back-off, the reconnect_fail event, the return.
Backoff ==
    /\ user.pc = "backoff"
    /\ user' = [Advance(user, BACKOFF_MS) EXCEPT
                  !.pc = "idle",
                  !.trace = @ \o <<SleepEntry("backoff"),
                                   EventEntry("reconnect_fail", TRUE)>>]
    /\ UNCHANGED <<jobVars, device, client, broker, call, launch>>

\* Lines 152-157: what is left of the publish interval.
Remainder(u) == u.publish_interval - u.since_last

\* run_test on a connected user, up to the dispatch (lines 151-175).
RateLimit ==
    /\ user.pc = "idle"
    /\ user.connected
    /\ user' = [Advance(user, Remainder(user)) EXCEPT
                  !.pc = HandlerPc(user.test_type),
                  !.i = 0,
                  !.began_stable = (broker = "stable"),
                  !.trace = (IF Remainder(user) > 0
                             THEN <<SleepEntry("rate_limit")>> ELSE << >>)
                            \o <<DispatchEntry(user.test_type)>>]
    /\ UNCHANGED <<jobVars, device, client, broker, call, launch>>

\* self.client.publish(...) called by a handler: the call is recorded, an
\* exception goes to the handler of run_test, a return is followed by the
\* success event named event (none for the empty name).
Published(u, r, event) ==
    LET called == [u EXCEPT
                     !.since_pub = 0,
                     !.trace = Append(@, CallEntry("publish", r.raised, r.sent,
                                                   Spaced(u)))]
    IN  IF r.raised THEN Caught(called)
        ELSE IF event = "" THEN called
        ELSE [called EXCEPT !.trace = Append(@, EventEntry(event, FALSE))]

\* self.last_publish = time.time(), and the handler returns.
Done(u) == [u EXCEPT !.since_last = 0, !.pc = "idle", !.i = 0]

\* _telemetry_test (lines 229-245), also run for lwt (lines 355-358).
TelemetryPublish ==
    /\ user.pc = "publish"
    /\ \E r \in PublishOutcomes(client, user.protocol, broker) :
          user' = IF r.raised THEN Published(user, r, "publish")
                  ELSE Done(Published(user, r, "publish"))
    /\ UNCHANGED <<jobVars, device, client, broker, call, launch>>

\* _retained_test (lines 288-304).
RetainedPublish ==
    /\ user.pc = "retained"
    /\ \E r \in PublishOutcomes(client, user.protocol, broker) :
          user' = IF r.raised THEN Published(user, r, "publish_retained")
                  ELSE Done(Published(user, r, "publish_retained"))
    /\ UNCHANGED <<jobVars, device, client, broker, call, launch>>

\* Variant of the loop of _burst_test that runs once more.
BurstMoreInclusive(i) == i <= burst_count

\* for _ in range(burst_count): the loop goes on after i publishes.
BurstMore(i) == i < burst_count

\* One turn of the loop of _burst_test (lines 252-264), and line 265 after
\* the last one.
BurstPublish ==
    /\ user.pc = "burst"
    /\ \E r \in PublishOutcomes(client, user.protocol, broker) :
          user' = IF r.raised THEN Published(user, r, "publish_burst")
                  ELSE IF BurstMore(user.i + 1)
                  THEN [Published(user, r, "publish_burst") EXCEPT !.i = @ + 1]
                  ELSE Done(Published(user, r, "publish_burst"))
    /\ UNCHANGED <<jobVars, device, client, broker, call, launch>>

\* _churn_test, lines 270-273: disconnect, then sleep.
ChurnDisconnect(d) ==
    /\ user.pc = "churn"
    /\ client' = Disconnect(client, user.protocol)
    /\ user' = [Advance(user, d) EXCEPT
                  !.pc = "churn_connect",
                  !.trace = @ \o <<CallEntry("disconnect", FALSE, FALSE, TRUE),
                                   SleepEntry("churn")>>]
    /\ UNCHANGED <<jobVars, device, broker, call, launch>>

\* A connect made by a handler, and the event that follows its return.
Connected(u, r, event) ==
    LET called == [u EXCEPT
                     !.trace = Append(@, CallEntry("connect", r.raised, FALSE,
                                                   TRUE))]
    IN  IF r.raised THEN Caught(called)
        ELSE [called EXCEPT !.trace = Append(@, EventEntry(event, FALSE)),
                            !.pc = "idle"]

\* _churn_test, lines 276-286.
ChurnConnect ==
    /\ user.pc = "churn_connect"
    /\ \E r \in ConnectOutcomes(client, user.protocol, broker) :
          /\ client' = r.client
          /\ user' = Connected(user, r, "reconnect")
    /\ UNCHANGED <<jobVars, device, broker, call, launch>>

\* Variant of _command_test in which a failed subscribe is swallowed.
AfterSubscribeSwallowed(u, raised) ==
    [u EXCEPT !.trace = Append(@, CallEntry("subscribe", raised, FALSE, TRUE)),
              !.pc = "command_publish"]

\* _command_test, line 312: the subscribe and where the handler goes next.
AfterSubscribe(u, raised) ==
    LET called == [u EXCEPT
                     !.trace = Append(@, CallEntry("subscribe", raised, FALSE,
                                                   TRUE))]
    IN  IF raised THEN Caught(called)
        ELSE [called EXCEPT !.pc = "command_publish"]

CommandSubscribe ==
    /\ user.pc = "command"
    /\ user' = AfterSubscribe(user, SubscribeRaises(client, user.protocol))
    /\ UNCHANGED <<jobVars, device, client, broker, call, launch>>

\* _command_test, lines 315-328.
CommandPublish ==
    /\ user.pc = "command_publish"
    /\ \E r \in PublishOutcomes(client, user.protocol, broker) :
          user' = IF r.raised THEN Published(user, r, "command_response")
                  ELSE Done(Published(user, r, "command_response"))
    /\ UNCHANGED <<jobVars, device, client, broker, call, launch>>

\* _offline_test, line 336: a publish that fires no event.
OfflinePublish ==
    /\ user.pc = "offline"
    /\ \E r \in PublishOutcomes(client, user.protocol, broker) :
          user' = IF r.raised THEN Published(user, r, "")
                  ELSE [Published(user, r, "") EXCEPT
                          !.pc = "offline_disconnect"]
    /\ UNCHANGED <<jobVars, device, client, broker, call, launch>>

\* _offline_test, lines 339-340.
OfflineDisconnect(d) ==
    /\ user.pc = "offline_disconnect"
    /\ client' = Disconnect(client, user.protocol)
    /\ user' = [Advance(user, d) EXCEPT
                  !.pc = "offline_connect",
                  !.trace = @ \o <<CallEntry("disconnect", FALSE, FALSE, TRUE),
                                   SleepEntry("offline")>>]
    /\ UNCHANGED <<jobVars, device, broker, call, launch>>

\* _offline_test, lines 343-353.
OfflineConnect ==
    /\ user.pc = "offline_connect"
    /\ \E r \in ConnectOutcomes(client, user.protocol, broker) :
          /\ client' = r.client
          /\ user' = Connected(user, r, "offline_reconnect")
    /\ UNCHANGED <<jobVars, device, broker, call, launch>>

(***************************************************************************)
(* The environment of the user: the broker, and the network thread of the  *)
(* paho client, which calls the callbacks of MQTTDevice while its loop     *)
(* runs and connects again by itself after a lost connection.              *)
(***************************************************************************)
BrokerChange(b) ==
    /\ broker # "stable"
    /\ b # broker
    /\ broker' = b
    /\ UNCHANGED <<jobVars, device, user, client, call, launch>>

\* MQTTDevice._on_disconnect (lines 94-96).
MqttOnDisconnect ==
    /\ user.protocol = "mqtt"
    /\ client.loop
    /\ client._connected
    /\ broker = "down"
    /\ client' = [client EXCEPT !._connected = FALSE]
    /\ UNCHANGED <<jobVars, device, user, broker, call, launch>>

\* MQTTDevice._on_connect (lines 87-92).
MqttOnConnect ==
    /\ user.protocol = "mqtt"
    /\ client.loop
    /\ ~client._connected
    /\ broker \notin {"down", "silent"}
    /\ client' = IF BrokerAccepts(broker)
                 THEN [client EXCEPT !._connected = TRUE]
                 ELSE [client EXCEPT !._connect_error = TRUE]
    /\ UNCHANGED <<jobVars, device, user, broker, call, launch>>

UserStep ==
    \/ OnStart
    \/ Reconnect
    \/ Backoff
    \/ RateLimit
    \/ TelemetryPublish
    \/ RetainedPublish
    \/ BurstPublish
    \/ \E d \in ChurnSleeps : ChurnDisconnect(d)
    \/ ChurnConnect
    \/ CommandSubscribe
    \/ CommandPublish
    \/ OfflinePublish
    \/ \E d \in OfflineSleeps : OfflineDisconnect(d)
    \/ OfflineConnect

UserInit ==
    /\ jobs = << >>
    /\ table = << >>
    /\ task = << >>
    /\ child = << >>
    /\ stderr = << >>
    /\ JOBS_RUNNING = 0
    /\ now = 0
    /\ ticks = 0
    /\ lastOp = NoOp
    /\ device = NewDevice(0, DEFAULT_MESSAGE_SIZE)
    /\ user \in {NewUser(p, t, i) :
                   p \in Protocols, t \in TestTypes, i \in Intervals}
    /\ client = NewClient
    /\ broker = "up"
    /\ call = NoCall
    /\ launch = NoLaunch

UserNext ==
    \/ OnStart
    \/ Reconnect
    \/ Backoff
    \/ RateLimit
    \/ TelemetryPublish
    \/ RetainedPublish
    \/ BurstPublish
    \/ \E d \in ChurnSleeps : ChurnDisconnect(d)
    \/ ChurnConnect
    \/ CommandSubscribe
    \/ CommandPublish
    \/ OfflinePublish
    \/ \E d \in OfflineSleeps : OfflineDisconnect(d)
    \/ OfflineConnect
    \/ \E b \in Brokers : BrokerChange(b)
    \/ MqttOnDisconnect
    \/ MqttOnConnect

UserSpec == UserInit /\ [][UserNext]_vars

\* The greenlet of the user is scheduled whenever it can run, and so is the
\* network thread of the paho client.
UserLiveSpec ==
    /\ UserInit
    /\ [][UserNext]_vars
    /\ WF_vars(UserStep)
    /\ WF_vars(MqttOnConnect)

(***************************************************************************)
(* The drivers called directly, in any order: the capability interface of  *)
(* protocols/ used by a caller other than IoTDeviceUser.  user only names  *)
(* the protocol of the driver.                                             *)
(***************************************************************************)
QosArgs == {None, 0, 1, 2}
QosLevels == {0, 1, 2}

\* The exception of a connect that raises.  MQTT (lines 117-134): the error
\* of the socket when the broker cannot be reached, else the text of
\* _connect_error when it is set at the first turn of the wait loop that
\* looks at it, else the timeout of line 134.
ConnectError(c, protocol, b) ==
    IF protocol = "http" THEN "ConnectionError"
    ELSE IF b = "down" THEN "OSError"
    ELSE IF c._connect_error \/ b = "refuse" THEN "rejected"
    ELSE "timeout"

\* mqtt_device.py line 165: the QoS the message is published with.
PublishedQos(c, qos) == IF qos # None THEN qos ELSE c.qos

\* mqtt_device.py line 171: (qos or self.qos) > 0; None and 0 are falsy.
Waits(c, qos) == (IF qos \in {None, 0} THEN c.qos ELSE qos) > 0

\* unsubscribe exists on MQTTDevice only (lines 181-186).
UnsubscribeError(c, protocol) ==
    IF protocol # "mqtt" THEN "AttributeError"
    ELSE IF NotConnected(c) THEN "ConnectionError"
    ELSE "None"

Called(op, after, raised, error, qos, waited) ==
    [op |-> op, before |-> client, after |-> after, broker |-> broker,
     raised |-> raised, error |-> error, qos |-> qos, waited |-> waited]

DriverConnect ==
    /\ \E r \in ConnectOutcomes(client, user.protocol, broker) :
          /\ client' = r.client
          /\ call' = Called("connect", r.client, r.raised,
                            IF r.raised
                            THEN ConnectError(client, user.protocol, broker)
                            ELSE "None",
                            None, FALSE)
    /\ UNCHANGED <<jobVars, device, user, broker, launch>>

DriverDisconnect ==
    /\ client' = Disconnect(client, user.protocol)
    /\ call' = Called("disconnect", Disconnect(client, user.protocol), FALSE, "None", None, FALSE)
    /\ UNCHANGED <<jobVars, device, user, broker, launch>>

\* publish(topic, payload, qos=qos): the wait of line 172 is where a
\* publish on a connected MQTT driver can raise.
DriverPublish(qos) ==
    /\ \E r \in PublishOutcomes(client, user.protocol, broker) :
          /\ (user.protocol = "mqtt" /\ r.raised /\ r.sent)
                => Waits(client, qos)
          /\ call' = Called("publish", client, r.raised,
                            IF r.raised THEN "ConnectionError" ELSE "None",
                            IF user.protocol = "mqtt" /\ r.sent
                            THEN PublishedQos(client, qos) ELSE None,
                            /\ user.protocol = "mqtt"
                            /\ r.sent
                            /\ Waits(client, qos))
    /\ UNCHANGED <<jobVars, device, user, client, broker, launch>>

DriverSubscribe ==
    /\ call' = Called("subscribe", client,
                      SubscribeRaises(client, user.protocol),
                      IF SubscribeRaises(client, user.protocol)
                      THEN "ConnectionError" ELSE "None",
                      None, FALSE)
    /\ UNCHANGED <<jobVars, device, user, client, broker, launch>>

DriverUnsubscribe ==
    /\ call' = Called("unsubscribe", client,
                      UnsubscribeError(client, user.protocol) # "None",
                      UnsubscribeError(client, user.protocol),
                      None, FALSE)
    /\ UNCHANGED <<jobVars, device, user, client, broker, launch>>

DriverInit ==
    /\ jobs = << >>
    /\ table = << >>
    /\ task = << >>
    /\ child = << >>
    /\ stderr = << >>
    /\ JOBS_RUNNING = 0
    /\ now = 0
    /\ ticks = 0
    /\ lastOp = NoOp
    /\ device = NewDevice(0, DEFAULT_MESSAGE_SIZE)
    /\ user \in {NewUser(p, "telemetry", DEFAULT_INTERVAL) : p \in Protocols}
    /\ client \in {[NewClient EXCEPT !.qos = q] : q \in QosLevels}
    /\ broker = "up"
    /\ call = NoCall
    /\ launch = NoLaunch

DriverNext ==
    \/ DriverConnect
    \/ DriverDisconnect
    \/ \E qos \in QosArgs : DriverPublish(qos)
    \/ DriverSubscribe
    \/ DriverUnsubscribe
    \/ \E b \in DriverBrokers : BrokerChange(b)
    \/ MqttOnDisconnect
    \/ MqttOnConnect

DriverSpec == DriverInit /\ [][DriverNext]_vars

(***************************************************************************)
(* The settings of a run crossing the process boundary: _build_env of      *)
(* job_manager.py writes them as strings into the environment of the       *)
(* child, IoTDeviceUser.__init__ of locustfile.py reads them back.  A      *)
(* string that is formatted or parsed is a sequence of characters; a       *)
(* string that is passed as it is stays a string.  A float is counted in   *)
(* tenths (publishRatePerDevice is 0.1 to 100).                            *)
(***************************************************************************)
ConfigProtocols == Protocols \cup {"mqtt-ws"}
ConfigQos == {0, 1, 2}
ConfigSizes == {1, DEFAULT_MESSAGE_SIZE, 1048576}
ConfigRates == {1, 25, 1000}
ConfigExpiries == {None, 1, 86400}
ConfigUrls == {"mqtt://artemis-mqtt-0-svc.edge:1883"}

Configs ==
    [protocol : ConfigProtocols,
     brokerUrl : ConfigUrls,
     testType : {"telemetry", "offline"},
     topicPattern : {"devices/{deviceId}/telemetry"},
     qos : ConfigQos,
     retain : BOOLEAN,
     cleanSession : BOOLEAN,
     messageSizeBytes : ConfigSizes,
     publishRatePerDevice : ConfigRates,
     useWebSockets : BOOLEAN,
     messageExpirySeconds : ConfigExpiries]

DigitChars == <<"0", "1", "2", "3", "4", "5", "6", "7", "8", "9">>

\* str(n) for an int n >= 0.
RECURSIVE StrInt(_)
StrInt(n) ==
    IF n < 10 THEN <<DigitChars[n + 1]>>
    ELSE Append(StrInt(n \div 10), DigitChars[(n % 10) + 1])

DigitValue(ch) == (CHOOSE k \in DOMAIN DigitChars : DigitChars[k] = ch) - 1

\* int(s) for a string of decimal digits.
RECURSIVE ParseInt(_)
ParseInt(s) ==
    IF Len(s) = 1 THEN DigitValue(s[1])
    ELSE 10 * ParseInt(SubSeq(s, 1, Len(s) - 1)) + DigitValue(s[Len(s)])

\* str(b) for a bool.
StrBool(b) ==
    IF b THEN <<"T", "r", "u", "e">> ELSE <<"F", "a", "l", "s", "e">>

LowerChar(ch) == IF ch = "T" THEN "t" ELSE IF ch = "F" THEN "f" ELSE ch

\* s.lower()
Lower(s) == [k \in DOMAIN s |-> LowerChar(s[k])]

\* str(x) for a float x given in tenths: "0.1", "2.5", "100.0".
StrFloat(x) == StrInt(x \div 10) \o <<".">> \o StrInt(x % 10)

\* float(s), in tenths.
ParseFloat(s) ==
    LET dot == CHOOSE k \in DOMAIN s : s[k] = "."
    IN  10 * ParseInt(SubSeq(s, 1, dot - 1))
        + ParseInt(SubSeq(s, dot + 1, Len(s)))

\* if config.messageExpirySeconds: (job_manager.py line 187).
Truthy(v) == v # None /\ v # 0

\* JobManager._build_env (job_manager.py lines 172-191).
build_env(config) ==
    LET always ==
           [LOADTEST_PROTOCOL |-> config.protocol,
            LOADTEST_BROKER_URL |-> config.brokerUrl,
            LOADTEST_TEST_TYPE |-> config.testType,
            LOADTEST_TOPIC_PATTERN |-> config.topicPattern,
            LOADTEST_QOS |-> StrInt(config.qos),
            LOADTEST_RETAIN |-> Lower(StrBool(config.retain)),
            LOADTEST_CLEAN_SESSION |-> Lower(StrBool(config.cleanSession)),
            LOADTEST_MESSAGE_SIZE |-> StrInt(config.messageSizeBytes),
            LOADTEST_PUBLISH_RATE |-> StrFloat(config.publishRatePerDevice),
            LOADTEST_USE_WEBSOCKETS |-> Lower(StrBool(config.useWebSockets))]
    IN  IF Truthy(config.messageExpirySeconds)
        THEN always @@
             [k \in {"LOADTEST_MESSAGE_EXPIRY"} |->
                 StrInt(config.messageExpirySeconds)]
        ELSE always

\* locustfile.py lines 16-18.
get_env(env, key, default) ==
    IF key \in DOMAIN env THEN env[key] ELSE default

\* Lines 21-23.
get_env_bool(env, key, default) ==
    Lower(get_env(env, key, StrBool(default))) = <<"t", "r", "u", "e">>

\* Lines 26-28.
get_env_int(env, key, default) == ParseInt(get_env(env, key, StrInt(default)))

\* Lines 31-33.
get_env_float(env, key, default) ==
    ParseFloat(get_env(env, key, StrFloat(default)))

\* Variant of line 57 that keeps the 0 of an absent setting.
OrZero(v) == v + 0

\* get_env_int("LOADTEST_MESSAGE_EXPIRY", 0) or None (line 57).
OrNone(v) == IF v = 0 THEN None ELSE v

\* IoTDeviceUser.__init__, lines 44-57.
ReadSettings(env) ==
    [protocol |-> get_env(env, "LOADTEST_PROTOCOL", "mqtt"),
     broker_url |-> get_env(env, "LOADTEST_BROKER_URL",
                            "mqtt://localhost:1883"),
     test_type |-> get_env(env, "LOADTEST_TEST_TYPE", "telemetry"),
     topic_pattern |-> get_env(env, "LOADTEST_TOPIC_PATTERN",
                               "devices/{deviceId}/telemetry"),
     qos |-> get_env_int(env, "LOADTEST_QOS", DEFAULT_QOS),
     retain |-> get_env_bool(env, "LOADTEST_RETAIN", FALSE),
     clean_session |-> get_env_bool(env, "LOADTEST_CLEAN_SESSION", TRUE),
     message_size |-> get_env_int(env, "LOADTEST_MESSAGE_SIZE",
                                  DEFAULT_MESSAGE_SIZE),
     publish_rate |-> get_env_float(env, "LOADTEST_PUBLISH_RATE", 10),
     use_websockets |-> get_env_bool(env, "LOADTEST_USE_WEBSOCKETS", FALSE),
     message_expiry |-> OrNone(get_env_int(env, "LOADTEST_MESSAGE_EXPIRY", 0))]

\* _run_job, lines 89-90: the environment of the child of a job.
BuildEnv(config) ==
    /\ launch = NoLaunch
    /\ launch' = [config |-> config, env |-> build_env(config),
                  settings |-> << >>]
    /\ UNCHANGED <<jobVars, device, user, client, broker, call>>

\* A device of the child is constructed.
ReadEnv ==
    /\ launch.env # << >>
    /\ launch.settings = << >>
    /\ launch' = [launch EXCEPT !.settings = ReadSettings(launch.env)]
    /\ UNCHANGED <<jobVars, device, user, client, broker, call>>

LaunchNext ==
    \/ \E config \in Configs : BuildEnv(config)
    \/ ReadEnv

LaunchSpec == Init /\ [][LaunchNext]_vars

(***************************************************************************)
(* Properties                                                              *)
(***************************************************************************)
TableObjs(t) == {t[id] : id \in DOMAIN t}

Created == lastOp'.op = "create" /\ lastOp'.ret = "Job"

\* C1: in every reachable state the number of jobs of the table whose
\* status is RUNNING is at most the ceiling MAX_CONCURRENT_JOBS (5).
C1_CeilingRespected == running_count <= MAX_CONCURRENT_JOBS

\* C2: a Job's status changes only from PENDING to RUNNING and from RUNNING
\* to COMPLETED, FAILED or STOPPED; a terminal status never changes.
C2_StatusMachine ==
    [][\A o \in Objs :
          jobs'[o].status # jobs[o].status =>
             \/ jobs[o].status = "PENDING" /\ jobs'[o].status = "RUNNING"
             \/ jobs[o].status = "RUNNING" /\ jobs'[o].status \in Terminal
      ]_vars

\* C2 witness: stop was called on a job with a child process handle whose
\* supervision has ended, and the job is in a terminal status.
C2_Witness ==
    /\ lastOp.op = "stop"
    /\ lastOp.obj \in Objs
    /\ jobs[lastOp.obj].status \in Terminal
    /\ jobs[lastOp.obj].process
    /\ task[lastOp.obj].pc = "done"

\* C3: stop on a job whose status is RUNNING reports that a stop occurred
\* and leaves the job STOPPED with its end time set.
C3_StopOnRunningStops ==
    [][(/\ lastOp'.op = "stop"
        /\ lastOp'.id \in DOMAIN table
        /\ jobs[table[lastOp'.id]].status = "RUNNING")
       => /\ lastOp'.ret = "True"
          /\ jobs'[table[lastOp'.id]].status = "STOPPED"
          /\ jobs'[table[lastOp'.id]].ended_at # None
      ]_vars

\* C4: the JOBS_RUNNING gauge never goes below zero and is back at its
\* initial value (zero) whenever every job is in a terminal status.
C4_GaugeBalanced ==
    /\ JOBS_RUNNING >= 0
    /\ (\A o \in Objs : jobs[o].status \in Terminal) => JOBS_RUNNING = 0

\* C5: create raises the capacity error exactly when the count of RUNNING
\* jobs at the time of the call has reached 5, and then it allocates no Job,
\* launches no task and leaves the table unchanged.
C5_CapacityError ==
    [][lastOp'.op = "create" =>
          /\ (lastOp'.ret = "ValueError")
                <=> (running_count >= MAX_CONCURRENT_JOBS)
          /\ lastOp'.ret = "ValueError" =>
                /\ jobs' = jobs
                /\ table' = table
                /\ task' = task
                /\ child' = child
      ]_vars

\* C5 witness: a create call was refused with five RUNNING jobs in the table.
C5_Witness ==
    /\ lastOp.op = "create"
    /\ lastOp.ret = "ValueError"
    /\ running_count = MAX_CONCURRENT_JOBS
    /\ Cardinality(DOMAIN table) = MAX_CONCURRENT_JOBS

\* C6: a create call that does not raise puts exactly one new record in the
\* table, the one it returns, launches one supervision task for it that has
\* not run yet, waits for nothing (no other job or task changes, no time
\* passes) and returns the Job in status PENDING or RUNNING.
C6_CreateAddsOne ==
    [][Created =>
          /\ Len(jobs') = Len(jobs) + 1
          /\ TableObjs(table') \ TableObjs(table) = {lastOp'.obj}
          /\ lastOp'.obj = Len(jobs')
          /\ table'[lastOp'.id] = lastOp'.obj
          /\ jobs'[lastOp'.obj].job_id = lastOp'.id
          /\ jobs'[lastOp'.obj].status \in {"PENDING", "RUNNING"}
          /\ Len(task') = Len(task) + 1
          /\ task'[lastOp'.obj].pc = "created"
          /\ \A o \in Objs : jobs'[o] = jobs[o] /\ task'[o] = task[o]
          /\ now' = now
      ]_vars

\* C6 witness: a second create call returned a PENDING Job that is in the
\* table under its identifier, while the first job is already RUNNING.
C6_Witness ==
    /\ lastOp.op = "create"
    /\ lastOp.ret = "Job"
    /\ lastOp.obj = 2
    /\ table[lastOp.id] = 2
    /\ jobs[2].status = "PENDING"
    /\ jobs[1].status = "RUNNING"

\* C7: the identifier allocated by create is not a key of the table, so
\* every record of the table is still there under its identifier afterwards.
C7_FreshIdentifier ==
    [][Created =>
          /\ lastOp'.id \notin DOMAIN table
          /\ \A id \in DOMAIN table :
                id \in DOMAIN table' /\ table'[id] = table[id]
      ]_vars

\* C8: stop with an unknown identifier, or on a job that is not RUNNING,
\* returns false and changes nothing: no job field, no table entry, not the
\* gauge, and no child process is signalled.
C8_StopNoOp ==
    [][(/\ lastOp'.op = "stop"
        /\ \/ lastOp'.id \notin DOMAIN table
           \/ jobs[table[lastOp'.id]].status # "RUNNING")
       => /\ lastOp'.ret = "False"
          /\ jobs' = jobs
          /\ table' = table
          /\ task' = task
          /\ child' = child
          /\ JOBS_RUNNING' = JOBS_RUNNING
      ]_vars

\* C8 witness: stop returned false on a job in a terminal status that has a
\* child process handle.
C8_Witness ==
    /\ lastOp.op = "stop"
    /\ lastOp.ret = "False"
    /\ lastOp.obj \in Objs
    /\ jobs[lastOp.obj].status \in Terminal
    /\ jobs[lastOp.obj].process

\* C9: cleanup_expired removes from the table exactly the jobs whose end
\* time is set and more than 3600 seconds old, returns their number, and
\* leaves every other entry and every Job field unchanged.
C9_CleanupExact ==
    [][lastOp'.op = "cleanup" =>
          LET old == {id \in DOMAIN table :
                         /\ jobs[table[id]].ended_at # None
                         /\ now - jobs[table[id]].ended_at > 3600}
          IN  /\ DOMAIN table' = DOMAIN table \ old
              /\ \A id \in DOMAIN table' : table'[id] = table[id]
              /\ lastOp'.n = Cardinality(old)
              /\ \A id \in DOMAIN table :
                    jobs[table[id]].status \in {"PENDING", "RUNNING"}
                       => id \in DOMAIN table'
              /\ jobs' = jobs
              /\ task' = task
              /\ JOBS_RUNNING' = JOBS_RUNNING
      ]_vars

\* C9 witness: a sweep removed a job and kept one that ended exactly 3600
\* seconds before.
C9_Witness ==
    /\ lastOp.op = "cleanup"
    /\ lastOp.n >= 1
    /\ \E id \in DOMAIN table :
          /\ jobs[table[id]].ended_at # None
          /\ now - jobs[table[id]].ended_at = JOB_TTL_SECONDS

\* C10: a sweep that directly follows a sweep, with no time passing and no
\* other operation in between, removes nothing and leaves the table as it is.
C10_CleanupIdempotent ==
    [][lastOp.op = "cleanup" /\ lastOp'.op = "cleanup" =>
          /\ lastOp'.n = 0
          /\ table' = table
      ]_vars

\* C10 witness: a second sweep in a row returned zero after a sweep that had
\* removed a job.
C10_Witness ==
    /\ lastOp.op = "cleanup"
    /\ lastOp.prev >= 1
    /\ lastOp.n = 0

\* C11: a record leaves the table, or its identifier is bound to another
\* Job, only in a sweep, and then the job is in a terminal status, its
\* supervision has finished and its end time is more than 3600 seconds old.
C11_OnlySweepRemoves ==
    [][\A id \in DOMAIN table :
          (id \notin DOMAIN table' \/ table'[id] # table[id]) =>
             /\ lastOp'.op = "cleanup"
             /\ id \notin DOMAIN table'
             /\ jobs[table[id]].status \in Terminal
             /\ task[table[id]].pc = "done"
             /\ jobs[table[id]].ended_at # None
             /\ now - jobs[table[id]].ended_at > JOB_TTL_SECONDS
      ]_vars

\* C12: once the supervision of a job whose child exited by itself before
\* wait_for timed out is over, the job is COMPLETED without an error if the
\* exit code is zero and FAILED with an error if it is not.
C12_ExitCodeDecides ==
    \A o \in Objs :
       (task[o].pc = "done" /\ child[o] \in {"exit0", "exit1"}
           /\ ~task[o].expired) =>
          IF child[o] = "exit0"
          THEN jobs[o].status = "COMPLETED" /\ jobs[o].error = "None"
          ELSE jobs[o].status = "FAILED" /\ jobs[o].error # "None"

\* C12 witness: a child exited with a non-zero code and its job ended FAILED
\* with the exit error.
C12_Witness ==
    \E o \in Objs :
       /\ task[o].pc = "done"
       /\ child[o] = "exit1"
       /\ ~task[o].expired
       /\ jobs[o].status = "FAILED"
       /\ jobs[o].error = "exit"

\* C13: the error of a non-zero exit contains the last 500 characters of the
\* child's error stream, and the whole stream when it has at most 500.
C13_LastCharacters ==
    \A o \in Objs :
       jobs[o].error = "exit" =>
          jobs[o].detail =
             <<IF stderr[o] > 500 THEN stderr[o] - 499 ELSE 1, stderr[o]>>

\* C14: the timeout error is recorded only by a task whose wait_for timed
\* out, when the child is no longer alive (a child that was alive in the
\* handler has been killed and reaped), on a job that was RUNNING and
\* becomes FAILED; and a job whose child is still alive when the bound has
\* expired does not stay RUNNING.
C14_TimeoutKillsThenFails ==
    /\ [][\A o \in Objs :
             (jobs'[o].error = "Job timed out"
                 /\ jobs[o].error # "Job timed out") =>
                /\ task[o].expired
                /\ child[o] \in Exited
                /\ task[o].pc = "reap" => child[o] = "killed"
                /\ jobs[o].status = "RUNNING"
                /\ jobs'[o].status = "FAILED"
         ]_vars
    /\ \A o \in 1..MaxLiveJobs :
          (IF o \in Objs
           THEN task[o].pc = "wait" /\ child[o] \in Living
                   /\ now >= task[o].deadline
           ELSE FALSE)
             ~> (IF o \in Objs THEN jobs[o].status # "RUNNING" ELSE FALSE)

\* C14 witness: a job whose child hung is FAILED with the timeout error, its
\* child killed, its supervision over.
C14_Witness ==
    \E o \in Objs :
       /\ jobs[o].status = "FAILED"
       /\ jobs[o].error = "Job timed out"
       /\ child[o] = "killed"
       /\ task[o].pc = "done"
       /\ now >= jobs[o].started_at + jobs[o].runtimeSeconds
                    + WaitGraceSeconds

\* C15: every job that create accepted eventually is COMPLETED, FAILED or
\* STOPPED.
C15_EveryJobEnds ==
    \A o \in 1..MaxLiveJobs :
       (o \in Objs)
          ~> (IF o \in Objs THEN jobs[o].status \in Terminal ELSE FALSE)

\* C15 witness: every job is terminal, one of them after a stop call sent
\* SIGTERM to its child.
C15_Witness ==
    /\ Len(jobs) >= 1
    /\ \A o \in Objs : jobs[o].status \in Terminal
    /\ lastOp.op = "stop"
    /\ lastOp.obj \in Objs
    /\ jobs[lastOp.obj].process

\* C16: a job has at most one duration observation, and once its
\* supervision task has finished it has exactly one, its end time is set and
\* is not earlier than its start time.
C16_FinallyRecords ==
    \A o \in Objs :
       /\ task[o].observed <= 1
       /\ task[o].pc = "done" =>
             /\ jobs[o].started_at # None
             /\ jobs[o].ended_at # None
             /\ jobs[o].ended_at >= jobs[o].started_at
             /\ task[o].observed = 1

\* C16 witness: a supervision task finished through the exception handler
\* after its child was started, later than the job started.
C16_Witness ==
    \E o \in Objs :
       /\ task[o].pc = "done"
       /\ jobs[o].process
       /\ jobs[o].error = "exception"
       /\ jobs[o].ended_at > jobs[o].started_at
       /\ task[o].observed = 1

\* C17: the error of a FAILED job is never longer than the longest error of
\* the non-zero-exit path, the exit prefix and 500 characters.
C17_ErrorBounded ==
    \A o \in Objs :
       jobs[o].status = "FAILED" =>
          jobs[o].error_len <= ExitPrefixLen + STDERR_LIMIT

\* C18: a job in a terminal status has no living child: the child never
\* started, or it has exited and process.wait() has returned.
C18_TerminalMeansReaped ==
    \A o \in Objs :
       jobs[o].status \in Terminal => child[o] \in {"none"} \cup Exited

\* C18 witness: a job was made FAILED while its child held a SIGTERM sent by
\* stop and had exited with a non-zero code.
C18_Witness ==
    \E o \in Objs :
       /\ jobs[o].status = "FAILED"
       /\ task[o].pc = "stderr"
       /\ child[o] = "exit1"
       /\ jobs[o].process

\* C19: two consecutive payloads of a device that were generated in the
\* same whole second of elapsed time carry the same temperature, humidity
\* and pressure.
C19_SameSecondSamePayload ==
    (device.last.second # None /\ device.prev.second = device.last.second) =>
       /\ device.prev.temperature = device.last.temperature
       /\ device.prev.humidity = device.last.humidity
       /\ device.prev.pressure = device.last.pressure

\* C20: the humidity of every generated payload is between 0 and 100
\* (in hundredths: between 0 and 10000).
C20_HumidityInRange ==
    device.last.second # None =>
       device.last.humidity >= 0 /\ device.last.humidity <= 100 * 100

\* C20 witness: a payload generated in the second 5-minute cycle, from the
\* largest noise, whose humidity is in range.
C20_Witness ==
    /\ device.last.second # None
    /\ device.last.second >= CYCLE_SECONDS
    /\ device.prng[device.device_seed + device.last.second][2] = Unit - 1
    /\ device.last.humidity \in 0..(100 * 100)

\* C21: a payload generated for a message size at or above the floor of 200
\* is exactly that many bytes long; below the floor the padding is empty and
\* the payload is the record alone.
C21_PayloadSizeExact ==
    device.last.second # None =>
       /\ device.last.padding >= 0
       /\ IF device.message_size >= PAD_FLOOR
          THEN device.last.length = device.message_size
          ELSE /\ device.last.padding = 0
               /\ device.last.length =
                     PayloadLength(device.last.temperature,
                                   device.last.humidity,
                                   device.last.pressure, 0)


(***************************************************************************)
(* Properties of the simulated device's ticks.  user.trace holds what the  *)
(* tick under way, or the last one, has done so far.                       *)
(***************************************************************************)
Entries(kind) ==
    {k \in DOMAIN user.trace : user.trace[k].kind = kind}

Dispatched == Entries("dispatch") # {}

FailedCalls == {k \in Entries("call") : user.trace[k].failed}

FailedEvents == {k \in Entries("event") : user.trace[k].failed}

TickOver == user.pc = "idle" /\ user.trace # << >>

\* C22: an exception raised by a scenario handler is caught inside the tick
\* and recorded as exactly one failed event named after the configured
\* scenario type, right after the call that raised; the task does not end,
\* the device can run its next tick.
C22_HandlerExceptionCaught ==
    /\ user.pc # "crashed"
    /\ (Dispatched /\ FailedCalls # {}) =>
          /\ TickOver
          /\ Cardinality(FailedCalls) = 1
          /\ FailedEvents = {Len(user.trace)}
          /\ FailedCalls = {Len(user.trace) - 1}
          /\ user.trace[Len(user.trace)] = EventEntry(user.test_type, TRUE)
          /\ ENABLED UserStep

C22_Witness ==
    /\ Dispatched
    /\ FailedCalls # {}
    /\ user.test_type = "burst"
    /\ user.trace[Len(user.trace)] = EventEntry("burst", TRUE)

PublishPcs == {"publish", "retained", "burst", "command_publish", "offline"}

ClientStates ==
    [_connected : BOOLEAN, _connect_error : BOOLEAN, closed : BOOLEAN,
     loop : BOOLEAN, qos : {DEFAULT_QOS}]

\* What a step has added to the trace.
Added ==
    SubSeq(user'.trace, Len(user.trace) + 1, Len(user'.trace))

\* C23: for each of the three drivers a publish on a driver that is not
\* connected raises without sending anything; in a tick the call is made
\* once, the driver is left as it was, the failure is recorded and the
\* task goes on to its next tick.
C23_PublishNotConnected ==
    [][/\ \A c \in ClientStates, p \in Protocols, b \in Brokers :
             NotConnected(c) =>
                PublishOutcomes(c, p, b) = {[raised |-> TRUE, sent |-> FALSE]}
       /\ (user.pc \in PublishPcs /\ user' # user /\ ~client._connected) =>
             /\ Len(Added) = 2
             /\ Added[1].kind = "call"
             /\ Added[1].name = "publish"
             /\ Added[1].failed
             /\ ~Added[1].sent
             /\ Added[2] = EventEntry(user.test_type, TRUE)
             /\ client' = client
             /\ user'.pc = "idle"]_vars

C23_Witness ==
    /\ user.protocol = "http"
    /\ user.test_type = "offline"
    /\ ~client._connected
    /\ TickOver
    /\ Dispatched
    /\ Len(user.trace) >= 3
    /\ user.trace[Len(user.trace) - 1].name = "publish"
    /\ user.trace[Len(user.trace) - 1].failed
    /\ ~user.trace[Len(user.trace) - 1].sent

\* C24: once the broker accepts connections for good, a device that failed
\* to connect or lost its connection is eventually connected again, the
\* flag of the user and the state of its driver agreeing on it.
C24_EventuallyReconnected ==
    (broker = "stable") ~> (user.connected /\ client._connected)

\* The calls of a tick that go to the broker.
ProtocolCalls ==
    {k \in Entries("call") :
        user.trace[k].name \in {"connect", "publish", "subscribe"}}

\* C25: every connect, publish and subscribe of a tick is reported by one
\* event of its own: a finished tick has recorded as many events as it has
\* made such calls.
C25_EveryOperationReported ==
    TickOver => Cardinality(Entries("event")) = Cardinality(ProtocolCalls)

\* A finished tick of run_test that found the user disconnected.
ReconnectTick ==
    /\ TickOver
    /\ user.trace[1] \in {CallEntry("connect", f, FALSE, TRUE) : f \in BOOLEAN}
    /\ user.trace[Len(user.trace)].name # "connect"

\* C26: a tick of a disconnected device makes one connect and records one
\* event for it; after a failure it pauses, records reconnect_fail and ends
\* without running a handler; after a success it records reconnect_success
\* and goes on to the rate limit and the dispatch of the scenario.
C26_SingleReconnectThenProceed ==
    ReconnectTick =>
       /\ Cardinality(ProtocolCalls) = 1
       /\ IF user.trace[1].failed
          THEN user.trace = <<CallEntry("connect", TRUE, FALSE, TRUE),
                              SleepEntry("backoff"),
                              EventEntry("reconnect_fail", TRUE)>>
          ELSE /\ user.trace[2] = EventEntry("reconnect_success", FALSE)
               /\ Cardinality(Entries("event")) = 1
               /\ Dispatched

Publishes == {k \in Entries("call") : user.trace[k].name = "publish"}

\* C27: the first publish of a tick starts at least the publish interval
\* after the publish before it, whatever the scenario and whatever the
\* previous tick did.
C27_PublishesSpaced ==
    \A k \in Publishes :
       (\A j \in Publishes : k <= j) => user.trace[k].spaced

\* What the handler of the tick has recorded, after the dispatch.
Body ==
    LET d == CHOOSE k \in Entries("dispatch") : TRUE
    IN  SubSeq(user.trace, d + 1, Len(user.trace))

\* C28: a burst tick publishes and records in turn, one publish_burst event
\* after each publish that returns; it ends after the tenth publish, or at
\* the first publish that fails, which is followed by the one failed event
\* named after the scenario and by no other publish.
C28_BurstTenInOrder ==
    (Dispatched /\ user.test_type = "burst") =>
       /\ \A j \in DOMAIN Body :
             IF j % 2 = 1
             THEN /\ Body[j].kind = "call"
                  /\ Body[j].name = "publish"
                  /\ Body[j].failed => (j + 1 = Len(Body))
             ELSE Body[j] = IF Body[j - 1].failed
                            THEN EventEntry("burst", TRUE)
                            ELSE EventEntry("publish_burst", FALSE)
       /\ Len(Body) <= 2 * burst_count
       /\ TickOver <=> \/ Len(Body) = 2 * burst_count
                       \/ (Len(Body) > 0 /\ Body[Len(Body)].failed)

C28_Witness ==
    /\ Dispatched
    /\ user.test_type = "burst"
    /\ TickOver
    /\ Len(Body) = 2 * burst_count
    /\ FailedEvents = {}

\* C29: in a command tick the subscribe comes before the publish; when the
\* subscribe fails the tick makes no publish and records no success.
C29_SubscribeBeforePublish ==
    (Dispatched /\ user.test_type = "command" /\ Len(Body) > 0) =>
       /\ Body[1].kind = "call"
       /\ Body[1].name = "subscribe"
       /\ Body[1].failed => Body = <<Body[1], EventEntry("command", TRUE)>>
       /\ \A j \in DOMAIN Body :
             (Body[j].kind = "call" /\ Body[j].name = "publish") => j = 2

C29_Witness ==
    /\ Dispatched
    /\ user.test_type = "command"
    /\ Len(Body) = 2
    /\ Body[1].name = "subscribe"
    /\ Body[1].failed
    /\ TickOver

\* C30: a churn or offline tick run against a broker that accepts
\* connections ends with the driver connected and its reconnect recorded.
C30_ReconnectSucceeds ==
    (/\ TickOver
     /\ Dispatched
     /\ user.test_type \in {"churn", "offline"}
     /\ user.began_stable) =>
       /\ client._connected
       /\ user.trace[Len(user.trace)] \in
             {EventEntry("reconnect", FALSE),
              EventEntry("offline_reconnect", FALSE)}

\* C37: in every reachable state a job is in a terminal status exactly
\* when its end time is set.
C37_TerminalIffEnded ==
    \A o \in Objs :
       (jobs[o].status \in Terminal) <=> (jobs[o].ended_at # None)

\* C36: at the start of a tick the connected flag of the user is set only
\* if its driver is connected.
C36_FlagAgreesWithDriver ==
    (user.pc = "idle" /\ user.connected) => client._connected

(***************************************************************************)
(* Properties of the drivers called directly.                              *)
(***************************************************************************)
\* C31: connect of the HTTP driver raises exactly when the request to
\* /health and the request to the root path both fail; when it returns
\* the driver is connected, when it raises the driver is not.
C31_HttpConnectContract ==
    (user.protocol = "http" /\ call.op = "connect") =>
       /\ call.raised <=> /\ HealthFails(call.before, call.broker)
                          /\ RootFails(call.before, call.broker)
       /\ ~call.raised => call.after._connected
       /\ call.raised => ~call.after._connected

\* C32: subscribe and unsubscribe of the HTTP driver never raise and leave
\* the driver as it was, whatever its connection state.
C32_HttpSubscribeNoOp ==
    (user.protocol = "http" /\ call.op \in {"subscribe", "unsubscribe"}) =>
       /\ ~call.raised
       /\ call.after = call.before

\* C33: a publish of the MQTT driver waits for the acknowledgment exactly
\* when the QoS the message is published with is greater than 0.
C33_WaitIffQosPositive ==
    (user.protocol = "mqtt" /\ call.op = "publish" /\ call.qos # None) =>
       (call.waited <=> call.qos > 0)

\* C34: connect of the MQTT driver returns only with the driver connected;
\* on a broker that rejects the handshake it raises the rejection error,
\* on a broker that never answers it raises the timeout error.
C34_ConnectErrorsTyped ==
    (user.protocol = "mqtt" /\ call.op = "connect") =>
       /\ ~call.raised => call.after._connected
       /\ (call.raised /\ call.broker = "refuse") => call.error = "rejected"
       /\ (call.raised /\ call.broker = "silent") => call.error = "timeout"

\* C35: a connect of the MQTT driver to a broker that accepts the
\* handshake succeeds, whatever earlier attempts have left behind.
C35_ConnectIndependent ==
    (user.protocol = "mqtt" /\ call.op = "connect"
        /\ BrokerAccepts(call.broker)) => ~call.raised

====
